---- MODULE Spec2Model ----
(***************************************************************************)
(* State-machine model of the ext2-style filesystem simulator:             *)
(*   src/src/inode.c     the inode layer (create/delete, block mapping,    *)
(*                       byte-granular read/write, permission check)       *)
(*   src/src/commands.c  the command layer (cmd_*, parse_command,          *)
(*                       command_loop)                                     *)
(* The block device, the bitmap allocators, the directory layer and the    *)
(* user registry are called by these two files but defined elsewhere; they *)
(* are modelled from their description in the specification.               *)
(*                                                                         *)
(* Geometry is scaled down: a block holds BLOCK_SIZE bytes, an inode has   *)
(* NDIRECT direct pointers (12 in the source) followed by one single       *)
(* indirect pointer, an indirect block holds BLOCK_SIZE \div 4 block       *)
(* numbers of four bytes each, little-endian.                              *)
(***************************************************************************)
EXTENDS Integers, Sequences, FiniteSets, TLC

\* ---------------------------------------------------------------- bounds
BLOCK_SIZE == 4
NDIRECT == 1
MAX_BLOCKS == 16
MAX_INODES == 2
MAX_OPEN_FILES == 1
\* directory entries (all names have one byte) that fit one directory block
DIR_SLOTS == 2
\* cmd_open is not offered once next_fd has reached MaxFd
MaxFd == 5

\* ------------------------------------------------------ program constants
O_RDONLY == 0
O_WRONLY == 1
O_RDWR == 2
EXT2_S_IFREG == 32768
EXT2_S_IFDIR == 16384
EXT2_S_IRUSR == 4
EXT2_S_IWUSR == 2
EXT2_MAGIC == 61267
ROOT_INO == 2
\* s_first_data_block and s_r_blocks_count as cmd_format sets them
FIRST_DATA_BLOCK == 1
S_R_BLOCKS_COUNT == 10
FIRST_FD == 3
\* (uint32_t)-1, the value cmd_create holds after create_inode returned -1.
\* Only "is it 0" and "is it a valid inode number" are ever asked of it; it is
\* represented by the largest integer the model checker can hold.
UINT32_NEG1 == 2147483647

Names == {"a", "b"}
Users == {"root", "alice"}
\* the payloads of the write command: one byte, and one that crosses a block
\* boundary
WriteData == {<<7>>, <<7, 8, 9, 7, 8>>}
ReadSizes == {1, 5}
Modes == {0}

PTRS == BLOCK_SIZE \div 4
IND == NDIRECT + 1

Min(S) == CHOOSE x \in S : \A y \in S : x <= y
Max2(a, b) == IF a >= b THEN a ELSE b

RECURSIVE BitAnd(_, _)
BitAnd(a, b) ==
  IF a = 0 \/ b = 0 THEN 0
  ELSE (a % 2) * (b % 2) + 2 * BitAnd(a \div 2, b \div 2)

ZeroBlock == [i \in 1..BLOCK_SIZE |-> 0]

\* entry j (0-based) of a block read as an array of 32-bit little-endian numbers
\* (bit 31 is left out: the model checker's integers end at 2^31 - 1)
Le32Get(b, j) ==
  b[4 * j + 1] + 256 * b[4 * j + 2] + 65536 * b[4 * j + 3] + 16777216 * (b[4 * j + 4] % 128)

Le32Put(b, j, v) ==
  [i \in 1..BLOCK_SIZE |->
     IF i = 4 * j + 1 THEN v % 256
     ELSE IF i = 4 * j + 2 THEN (v \div 256) % 256
     ELSE IF i = 4 * j + 3 THEN (v \div 65536) % 256
     ELSE IF i = 4 * j + 4 THEN (v \div 16777216) % 256
     ELSE b[i]]

ZeroInode ==
  [i_mode |-> 0, i_uid |-> 0, i_gid |-> 0, i_size |-> 0, i_links_count |-> 0,
   i_blocks |-> 0, i_atime |-> 0, i_ctime |-> 0, i_mtime |-> 0,
   i_block |-> [k \in 1..IND |-> 0]]

VARIABLES
  image,        \* the disk image file: superblock counters, bitmaps, inode table, blocks
  mounted,      \* the block device holds the image open
  superblock,   \* fs.superblock
  open_files,   \* fs.open_files[0..MAX_OPEN_FILES)
  next_fd,      \* fs.next_fd
  current_user, \* the logged-in user, or "none"
  running,      \* command_loop has not left its loop
  last,         \* the command parse_command ran last
  result,       \* what parse_command returned for it
  issued,       \* every handle id cmd_open has returned
  now,          \* what time(NULL) returns
  disk_image,   \* fs.disk_image, the path cmd_mount recorded
  cwd_inode     \* fs.cwd_inode, the current directory

vars == <<image, mounted, superblock, open_files, next_fd, current_user, running,
          last, result, issued, now, disk_image, cwd_inode>>

\* ============================================================ block device
\* d is the image as the mounted session sees it:
\*   [magic, fb, fi, bbm, ibm, inodes, blk, dirblk]
\* fb, fi: s_free_blocks_count, s_free_inodes_count; bbm, ibm: the set bits of
\* the block and inode bitmaps; blk: the bytes of each block; dirblk: the
\* entries of each directory block.

inode_readable(n) == mounted /\ n >= 1 /\ n <= MAX_INODES

FreeBlockBits(d) == {b \in FIRST_DATA_BLOCK..(MAX_BLOCKS - 1) : b \notin d.bbm}

allocate_block(d) ==
  IF FreeBlockBits(d) = {} THEN [d |-> d, ret |-> 0]
  ELSE LET b == Min(FreeBlockBits(d))
       IN [d |-> [d EXCEPT !.bbm = @ \cup {b}, !.fb = @ - 1, !.blk[b] = ZeroBlock,
                           !.dirblk[b] = <<>>],
           ret |-> b]

free_block(d, b) ==
  IF b \in d.bbm THEN [d EXCEPT !.bbm = @ \ {b}, !.fb = @ + 1] ELSE d

FreeInodeBits(d) == {n \in 1..MAX_INODES : n \notin d.ibm}

allocate_inode(d) ==
  IF FreeInodeBits(d) = {} THEN [d |-> d, ret |-> 0]
  ELSE LET n == Min(FreeInodeBits(d))
       IN [d |-> [d EXCEPT !.ibm = @ \cup {n}, !.fi = @ - 1, !.inodes[n] = ZeroInode],
           ret |-> n]

free_inode(d, n) ==
  IF n \in d.ibm THEN [d EXCEPT !.ibm = @ \ {n}, !.fi = @ + 1] ELSE d

\* ============================================================= inode layer
create_inode(d, mode, uid, gid) ==
  LET a == allocate_inode(d)
  IN IF a.ret = 0 THEN [d |-> d, ret |-> -1]
     ELSE [d |-> [a.d EXCEPT !.inodes[a.ret] =
                     [ZeroInode EXCEPT !.i_mode = mode, !.i_uid = uid, !.i_gid = gid,
                                       !.i_links_count = 1, !.i_atime = now,
                                       !.i_ctime = now, !.i_mtime = now]],
           ret |-> a.ret]

RECURSIVE FreeAll(_, _)
FreeAll(d, bs) ==
  IF bs = <<>> THEN d ELSE FreeAll(free_block(d, Head(bs)), Tail(bs))

\* delete_inode returning after the blocks are freed: the record is not
\* cleared and the inode is not released
delete_inode_no_clear(d, n) ==
  IF ~inode_readable(n) THEN [d |-> d, ret |-> -1]
  ELSE LET ino == d.inodes[n]
           direct == [k \in 1..NDIRECT |-> ino.i_block[k]]
           d1 == FreeAll(d, SelectSeq(direct, LAMBDA b : b # 0))
           ind == ino.i_block[IND]
           entries == [j \in 1..PTRS |-> Le32Get(d1.blk[ind], j - 1)]
           d2 == IF ind # 0
                 THEN free_block(FreeAll(d1, SelectSeq(entries, LAMBDA b : b # 0)), ind)
                 ELSE d1
       IN [d |-> d2, ret |-> 0]

\* delete_inode that frees the blocks the indirect block names but not the
\* indirect block itself
delete_inode_keeps_indirect(d, n) ==
  IF ~inode_readable(n) THEN [d |-> d, ret |-> -1]
  ELSE LET ino == d.inodes[n]
           direct == [k \in 1..NDIRECT |-> ino.i_block[k]]
           d1 == FreeAll(d, SelectSeq(direct, LAMBDA b : b # 0))
           ind == ino.i_block[IND]
           entries == [j \in 1..PTRS |-> Le32Get(d1.blk[ind], j - 1)]
           d2 == IF ind # 0
                 THEN FreeAll(d1, SelectSeq(entries, LAMBDA b : b # 0))
                 ELSE d1
           d3 == [d2 EXCEPT !.inodes[n] = ZeroInode]
       IN [d |-> free_inode(d3, n), ret |-> 0]

\* delete_inode that frees the direct blocks and the indirect block but not
\* the blocks the indirect block names
delete_inode_skips_entries(d, n) ==
  IF ~inode_readable(n) THEN [d |-> d, ret |-> -1]
  ELSE LET ino == d.inodes[n]
           direct == [k \in 1..NDIRECT |-> ino.i_block[k]]
           d1 == FreeAll(d, SelectSeq(direct, LAMBDA b : b # 0))
           ind == ino.i_block[IND]
           d2 == IF ind # 0 THEN free_block(d1, ind) ELSE d1
           d3 == [d2 EXCEPT !.inodes[n] = ZeroInode]
       IN [d |-> free_inode(d3, n), ret |-> 0]

delete_inode(d, n) ==
  IF ~inode_readable(n) THEN [d |-> d, ret |-> -1]
  ELSE LET ino == d.inodes[n]
           direct == [k \in 1..NDIRECT |-> ino.i_block[k]]
           d1 == FreeAll(d, SelectSeq(direct, LAMBDA b : b # 0))
           ind == ino.i_block[IND]
           entries == [j \in 1..PTRS |-> Le32Get(d1.blk[ind], j - 1)]
           d2 == IF ind # 0
                 THEN free_block(FreeAll(d1, SelectSeq(entries, LAMBDA b : b # 0)), ind)
                 ELSE d1
           d3 == [d2 EXCEPT !.inodes[n] = ZeroInode]
       IN [d |-> free_inode(d3, n), ret |-> 0]

get_inode_block(d, n, block_index) ==
  IF ~inode_readable(n) THEN [ret |-> -1, block_no |-> 0]
  ELSE LET ino == d.inodes[n]
       IN IF block_index < NDIRECT
          THEN [ret |-> 0, block_no |-> ino.i_block[block_index + 1]]
          ELSE IF block_index < NDIRECT + PTRS
          THEN IF ino.i_block[IND] = 0
               THEN [ret |-> 0, block_no |-> 0]
               ELSE [ret |-> 0,
                     block_no |-> Le32Get(d.blk[ino.i_block[IND]], block_index - NDIRECT)]
          ELSE [ret |-> -1, block_no |-> 0]

\* set_inode_block that fills the indirect block and does not store the
\* inode's pointer to it
set_inode_block_loses_indirect(d, n, block_index, block_no) ==
  IF ~inode_readable(n) THEN [d |-> d, ret |-> -1]
  ELSE LET ino == d.inodes[n]
       IN IF block_index < NDIRECT
          THEN [d |-> [d EXCEPT !.inodes[n].i_block[block_index + 1] = block_no],
                ret |-> 0]
          ELSE IF block_index < NDIRECT + PTRS
          THEN LET a == IF ino.i_block[IND] = 0 THEN allocate_block(d)
                        ELSE [d |-> d, ret |-> ino.i_block[IND]]
               IN IF a.ret = 0 THEN [d |-> d, ret |-> -1]
                  ELSE [d |-> [a.d EXCEPT
                                 !.blk[a.ret] = Le32Put(a.d.blk[a.ret],
                                                        block_index - NDIRECT, block_no)],
                        ret |-> 0]
          ELSE [d |-> d, ret |-> -1]

set_inode_block(d, n, block_index, block_no) ==
  IF ~inode_readable(n) THEN [d |-> d, ret |-> -1]
  ELSE LET ino == d.inodes[n]
       IN IF block_index < NDIRECT
          THEN [d |-> [d EXCEPT !.inodes[n].i_block[block_index + 1] = block_no],
                ret |-> 0]
          ELSE IF block_index < NDIRECT + PTRS
          THEN LET a == IF ino.i_block[IND] = 0 THEN allocate_block(d)
                        ELSE [d |-> d, ret |-> ino.i_block[IND]]
               IN IF a.ret = 0 THEN [d |-> d, ret |-> -1]
                  ELSE [d |-> [a.d EXCEPT
                                 !.blk[a.ret] = Le32Put(a.d.blk[a.ret],
                                                        block_index - NDIRECT, block_no),
                                 !.inodes[n] = [ino EXCEPT !.i_block[IND] = a.ret]],
                        ret |-> 0]
          ELSE [d |-> d, ret |-> -1]


update_atime(d, n) ==
  IF inode_readable(n) THEN [d EXCEPT !.inodes[n].i_atime = now] ELSE d

update_mtime(d, n) ==
  IF inode_readable(n) THEN [d EXCEPT !.inodes[n].i_mtime = now] ELSE d

update_ctime(d, n) ==
  IF inode_readable(n) THEN [d EXCEPT !.inodes[n].i_ctime = now] ELSE d

\* the while loop of read_inode_data; isize is the size read into the local
\* inode at entry, acc the bytes gathered so far, off is current_offset
RECURSIVE read_loop(_, _, _, _, _, _)
read_loop(d, n, isize, remaining, off, acc) ==
  IF ~(remaining > 0 /\ off < isize) THEN acc
  ELSE LET g == get_inode_block(d, n, off \div BLOCK_SIZE)
           block_offset == off % BLOCK_SIZE
           left == BLOCK_SIZE - block_offset
           c1 == IF left > remaining THEN remaining ELSE left
           cnt == IF off + c1 > isize THEN isize - off ELSE c1
       IN IF g.ret # 0 \/ g.block_no = 0 THEN acc
          ELSE read_loop(d, n, isize, remaining - cnt, off + cnt,
                         acc \o SubSeq(d.blk[g.block_no], block_offset + 1,
                                       block_offset + cnt))

\* read_inode_data that does not clip the read to the file size
read_inode_data_past_eof(d, n, size, offset) ==
  IF ~inode_readable(n) THEN [d |-> d, ret |-> -1, buf |-> <<>>]
  ELSE LET got == read_loop(d, n, offset + size, size, offset, <<>>)
       IN [d |-> update_atime(d, n), ret |-> Len(got), buf |-> got]

read_inode_data(d, n, size, offset) ==
  IF ~inode_readable(n) THEN [d |-> d, ret |-> -1, buf |-> <<>>]
  ELSE IF offset >= d.inodes[n].i_size THEN [d |-> d, ret |-> 0, buf |-> <<>>]
  ELSE LET got == read_loop(d, n, d.inodes[n].i_size, size, offset, <<>>)
       IN [d |-> update_atime(d, n), ret |-> Len(got), buf |-> got]

\* the while loop of write_inode_data; bw is bytes_written, off is current_offset
RECURSIVE write_loop(_, _, _, _, _)
write_loop(d, n, buf, bw, off) ==
  LET remaining == Len(buf) - bw
      block_index == off \div BLOCK_SIZE
      block_offset == off % BLOCK_SIZE
      g == get_inode_block(d, n, block_index)
      stop(dd) == [d |-> dd, bw |-> bw, off |-> off]
  IN IF remaining <= 0 THEN stop(d)
     ELSE IF g.ret # 0 THEN stop(d)
     ELSE LET a == IF g.block_no = 0 THEN allocate_block(d)
                   ELSE [d |-> d, ret |-> g.block_no]
              s == IF g.block_no = 0 THEN set_inode_block(a.d, n, block_index, a.ret)
                   ELSE [d |-> a.d, ret |-> 0]
              left == BLOCK_SIZE - block_offset
              cnt == IF left > remaining THEN remaining ELSE left
              patched == [i \in 1..BLOCK_SIZE |->
                            IF i > block_offset /\ i <= block_offset + cnt
                            THEN buf[bw + i - block_offset]
                            ELSE s.d.blk[a.ret][i]]
          IN IF a.ret = 0 THEN stop(d)
             ELSE IF s.ret # 0 THEN stop(free_block(s.d, a.ret))
             ELSE write_loop([s.d EXCEPT !.blk[a.ret] = patched], n, buf,
                             bw + cnt, off + cnt)

\* The size and block count are set in the local copy of the inode only
\* (lines 241-244); the record on disk is rewritten by update_mtime and
\* update_ctime, each from its own fresh read.
write_inode_data(d, n, buf, offset) ==
  IF ~inode_readable(n) THEN [d |-> d, ret |-> -1]
  ELSE LET w == write_loop(d, n, buf, 0, offset)
       IN [d |-> update_ctime(update_mtime(w.d, n), n), ret |-> w.bw]

uid_of(u) == IF u = "root" THEN 0 ELSE 1
gid_of(u) == IF u = "root" THEN 0 ELSE 1

\* check_permission that grants what any of the three classes grants
check_permission_any_class(d, n, access) ==
  IF ~inode_readable(n) THEN FALSE
  ELSE LET ino == d.inodes[n]
       IN \/ BitAnd((ino.i_mode \div 64) % 8, access) = access
          \/ BitAnd((ino.i_mode \div 8) % 8, access) = access
          \/ BitAnd(ino.i_mode % 8, access) = access

check_permission(d, n, access) ==
  IF ~inode_readable(n) THEN FALSE
  ELSE LET ino == d.inodes[n]
           mode == IF uid_of(current_user) = ino.i_uid THEN (ino.i_mode \div 64) % 8
                   ELSE IF gid_of(current_user) = ino.i_gid THEN (ino.i_mode \div 8) % 8
                   ELSE ino.i_mode % 8
       IN BitAnd(mode, access) = access

\* change_permission that stores the argument as the whole mode
change_permission_drops_type(d, n, mode) ==
  IF ~inode_readable(n) THEN [d |-> d, ret |-> -1]
  ELSE LET ino == d.inodes[n]
           new == [ino EXCEPT !.i_mode = mode % 4096]
       IN [d |-> [update_ctime(d, n) EXCEPT !.inodes[n] = new], ret |-> 0]

\* the stale local copy is written back after update_ctime
change_permission(d, n, mode) ==
  IF ~inode_readable(n) THEN [d |-> d, ret |-> -1]
  ELSE LET ino == d.inodes[n]
           new == [ino EXCEPT !.i_mode = (ino.i_mode - (ino.i_mode % 4096)) + (mode % 4096)]
       IN [d |-> [update_ctime(d, n) EXCEPT !.inodes[n] = new], ret |-> 0]

\* the stale local copy is written back after update_ctime
change_owner(d, n, uid, gid) ==
  IF ~inode_readable(n) THEN [d |-> d, ret |-> -1]
  ELSE LET ino == d.inodes[n]
           new == [ino EXCEPT !.i_uid = uid, !.i_gid = gid]
       IN [d |-> [update_ctime(d, n) EXCEPT !.inodes[n] = new], ret |-> 0]

\* the loop of truncate_inode over the logical blocks i .. old_blocks - 1
RECURSIVE truncate_loop(_, _, _, _)
truncate_loop(d, n, i, old_blocks) ==
  IF i >= old_blocks THEN d
  ELSE LET g == get_inode_block(d, n, i)
       IN IF g.ret = 0 /\ g.block_no # 0
          THEN truncate_loop(set_inode_block(free_block(d, g.block_no), n, i, 0).d,
                             n, i + 1, old_blocks)
          ELSE truncate_loop(d, n, i + 1, old_blocks)

\* truncate_inode that sets the size and leaves i_blocks as it was
truncate_inode_keeps_blocks(d, n, length) ==
  IF ~inode_readable(n) THEN [d |-> d, ret |-> -1]
  ELSE LET ino == d.inodes[n]
           new_blocks == (length + BLOCK_SIZE - 1) \div BLOCK_SIZE
           old_blocks == (ino.i_size + BLOCK_SIZE - 1) \div BLOCK_SIZE
           d1 == truncate_loop(d, n, new_blocks, old_blocks)
           d2 == update_ctime(update_mtime(d1, n), n)
           new == [ino EXCEPT !.i_size = length]
       IN IF length >= ino.i_size THEN [d |-> d, ret |-> 0]
          ELSE [d |-> [d2 EXCEPT !.inodes[n] = new], ret |-> 0]

\* the record read on entry, with the new size and block count, is what the
\* final write_inode stores
truncate_inode(d, n, length) ==
  IF ~inode_readable(n) THEN [d |-> d, ret |-> -1]
  ELSE LET ino == d.inodes[n]
           new_blocks == (length + BLOCK_SIZE - 1) \div BLOCK_SIZE
           old_blocks == (ino.i_size + BLOCK_SIZE - 1) \div BLOCK_SIZE
           d1 == truncate_loop(d, n, new_blocks, old_blocks)
           d2 == update_ctime(update_mtime(d1, n), n)
           new == [ino EXCEPT !.i_size = length, !.i_blocks = new_blocks]
       IN IF length >= ino.i_size THEN [d |-> d, ret |-> 0]
          ELSE [d |-> [d2 EXCEPT !.inodes[n] = new], ret |-> 0]

is_directory(d, n) ==
  inode_readable(n) /\ d.inodes[n].i_mode - (d.inodes[n].i_mode % 4096) = EXT2_S_IFDIR

is_regular_file(d, n) ==
  inode_readable(n) /\ d.inodes[n].i_mode - (d.inodes[n].i_mode % 4096) = EXT2_S_IFREG


\* ========================================================= directory layer
\* A directory block is a sequence of entries [inode, rec_len, name]; rec_len
\* is counted in entries of a one-byte name (align4(8 + 1) bytes each), and the
\* rec_len of a block's entries add up to DIR_SLOTS.  inode = 0 is a tombstone.

dir_nblocks(d, dir) == d.inodes[dir].i_size \div BLOCK_SIZE

dir_block(d, dir, i) == get_inode_block(d, dir, i).block_no

\* the entry that holds name: [found, blkno, idx]
RECURSIVE find_entry(_, _, _, _)
find_entry(d, dir, name, i) ==
  IF i >= dir_nblocks(d, dir) THEN [found |-> FALSE, blkno |-> 0, idx |-> 0]
  ELSE LET b == dir_block(d, dir, i)
           es == d.dirblk[b]
           hits == {k \in 1..Len(es) : es[k].inode # 0 /\ es[k].name = name}
       IN IF b # 0 /\ hits # {} THEN [found |-> TRUE, blkno |-> b, idx |-> Min(hits)]
          ELSE find_entry(d, dir, name, i + 1)

lookup(d, dir, name) ==
  IF ~is_directory(d, dir) THEN 0
  ELSE LET f == find_entry(d, dir, name, 0)
       IN IF f.found THEN d.dirblk[f.blkno][f.idx].inode ELSE 0

\* absolute paths of one component: "/" + name; "/" itself is the root
path_to_inode(d, name) ==
  LET n == IF name = "/" THEN ROOT_INO ELSE lookup(d, ROOT_INO, name)
  IN IF n = 0 THEN [ret |-> -1, inode_no |-> 0] ELSE [ret |-> 0, inode_no |-> n]

get_parent_inode(d, name) == [ret |-> 0, parent_inode |-> ROOT_INO, child_name |-> name]

\* the first block of the directory with room for one more entry, or 0
RECURSIVE find_room(_, _, _)
find_room(d, dir, i) ==
  IF i >= dir_nblocks(d, dir) THEN 0
  ELSE LET b == dir_block(d, dir, i)
           es == d.dirblk[b]
       IN IF b # 0 /\ Len(es) > 0
             /\ ((\E k \in 1..Len(es) : es[k].inode = 0 /\ es[k].rec_len >= 1)
                 \/ es[Len(es)].rec_len - 1 >= 1)
          THEN b
          ELSE find_room(d, dir, i + 1)

place_entry(es, name, child) ==
  LET tombs == {k \in 1..Len(es) : es[k].inode = 0 /\ es[k].rec_len >= 1}
  IN IF tombs # {}
     THEN [es EXCEPT ![Min(tombs)] = [inode |-> child, rec_len |-> @.rec_len, name |-> name]]
     ELSE [es EXCEPT ![Len(es)].rec_len = 1]
          \o <<[inode |-> child, rec_len |-> es[Len(es)].rec_len - 1, name |-> name]>>

add_directory_entry(d, dir, name, child) ==
  IF ~is_directory(d, dir) THEN [d |-> d, ret |-> -1]
  ELSE IF find_entry(d, dir, name, 0).found THEN [d |-> d, ret |-> -1]
  ELSE LET b == find_room(d, dir, 0)
           touch(dd) == update_ctime(update_mtime(dd, dir), dir)
       IN IF b # 0
          THEN [d |-> touch([d EXCEPT !.dirblk[b] = place_entry(d.dirblk[b], name, child)]),
                ret |-> 0]
          ELSE LET a == allocate_block(d)
                   s == set_inode_block(a.d, dir, dir_nblocks(d, dir), a.ret)
               IN IF a.ret = 0 THEN [d |-> d, ret |-> -1]
                  ELSE IF s.ret # 0 THEN [d |-> free_block(s.d, a.ret), ret |-> -1]
                  ELSE [d |-> touch([s.d EXCEPT
                                  !.dirblk[a.ret] = <<[inode |-> child, rec_len |-> DIR_SLOTS,
                                                       name |-> name]>>,
                                  !.inodes[dir].i_size = @ + BLOCK_SIZE,
                                  !.inodes[dir].i_blocks = @ + 1]),
                        ret |-> 0]

remove_directory_entry(d, dir, name) ==
  IF ~is_directory(d, dir) \/ name \in {".", ".."} THEN [d |-> d, ret |-> -1]
  ELSE LET f == find_entry(d, dir, name, 0)
           es == d.dirblk[f.blkno]
           merged == [k \in 1..(Len(es) - 1) |->
                        IF k = f.idx - 1
                        THEN [es[k] EXCEPT !.rec_len = @ + es[f.idx].rec_len]
                        ELSE IF k < f.idx THEN es[k] ELSE es[k + 1]]
           out == IF f.idx = 1 THEN [es EXCEPT ![1].inode = 0] ELSE merged
       IN IF ~f.found THEN [d |-> d, ret |-> -1]
          ELSE [d |-> update_ctime(update_mtime([d EXCEPT !.dirblk[f.blkno] = out], dir), dir),
                ret |-> 0]

\* no entry of directory dir besides "." and ".." is live
dir_is_empty(d, dir) ==
  \A i \in 0..(dir_nblocks(d, dir) - 1) :
    LET b == dir_block(d, dir, i)
    IN b # 0 => \A k \in 1..Len(d.dirblk[b]) :
                  d.dirblk[b][k].inode = 0 \/ d.dirblk[b][k].name \in {".", ".."}

\* returns [d, ret]; uid and gid are the caller's
create_directory(d, path, mode, uid, gid) ==
  LET p == get_parent_inode(d, path)
      c == create_inode(d, EXT2_S_IFDIR + mode, uid, gid)
      a == allocate_block(c.d)
      s == set_inode_block(a.d, c.ret, 0, a.ret)
      filled == [s.d EXCEPT
                   !.dirblk[a.ret] =
                      <<[inode |-> c.ret, rec_len |-> 1, name |-> "."],
                        [inode |-> p.parent_inode, rec_len |-> DIR_SLOTS - 1, name |-> ".."]>>,
                   !.inodes[c.ret].i_size = BLOCK_SIZE,
                   !.inodes[c.ret].i_blocks = 1,
                   !.inodes[c.ret].i_links_count = 2]
      e == add_directory_entry(filled, p.parent_inode, p.child_name, c.ret)
  IN IF path = "/" \/ p.ret # 0 THEN [d |-> d, ret |-> -1]
     ELSE IF ~is_directory(d, p.parent_inode) THEN [d |-> d, ret |-> -1]
     ELSE IF ~check_permission(d, p.parent_inode, EXT2_S_IWUSR) THEN [d |-> d, ret |-> -1]
     ELSE IF find_entry(d, p.parent_inode, p.child_name, 0).found THEN [d |-> d, ret |-> -1]
     ELSE IF c.ret < 0 THEN [d |-> c.d, ret |-> -1]
     ELSE IF a.ret = 0 THEN [d |-> delete_inode(c.d, c.ret).d, ret |-> -1]
     ELSE IF s.ret # 0 THEN [d |-> delete_inode(free_block(s.d, a.ret), c.ret).d, ret |-> -1]
     ELSE IF e.ret # 0 THEN [d |-> delete_inode(e.d, c.ret).d, ret |-> -1]
     ELSE [d |-> [e.d EXCEPT !.inodes[p.parent_inode].i_links_count = @ + 1], ret |-> 0]

delete_directory(d, path) ==
  LET t == path_to_inode(d, path)
      p == get_parent_inode(d, path)
      r == remove_directory_entry(d, p.parent_inode, p.child_name)
      x == delete_inode(r.d, t.inode_no)
  IN IF t.ret # 0 THEN [d |-> d, ret |-> -1]
     ELSE IF ~is_directory(d, t.inode_no) THEN [d |-> d, ret |-> -1]
     ELSE IF t.inode_no = ROOT_INO \/ t.inode_no = cwd_inode THEN [d |-> d, ret |-> -1]
     ELSE IF ~dir_is_empty(d, t.inode_no) THEN [d |-> d, ret |-> -1]
     ELSE IF r.ret # 0 THEN [d |-> r.d, ret |-> -1]
     ELSE [d |-> [x.d EXCEPT !.inodes[p.parent_inode].i_links_count = @ - 1], ret |-> 0]

\* returns [ret, cwd]: the return value and fs.cwd_inode afterwards
change_directory(d, path) ==
  LET t == path_to_inode(d, path)
  IN IF t.ret # 0 \/ ~is_directory(d, t.inode_no)
        \/ ~check_permission(d, t.inode_no, EXT2_S_IRUSR)
     THEN [ret |-> -1, cwd |-> cwd_inode]
     ELSE [ret |-> 0, cwd |-> t.inode_no]

\* prints the entries; changes nothing
list_directory(d, path) ==
  LET t == path_to_inode(d, path)
  IN IF t.ret # 0 \/ ~is_directory(d, t.inode_no) THEN -1 ELSE 0

\* ============================================================ user registry
login(u, p) == IF u \in Users /\ p = u THEN 0 ELSE -1

is_logged_in == current_user # "none"


BitOr(a, b) == a + b - BitAnd(a, b)

\* =========================================================== command layer
\* Each cmd_* takes the image d the session sees and returns the image it
\* leaves and its return value.

cmd_create(d, path) ==
  LET p == get_parent_inode(d, path)
      c == create_inode(d, EXT2_S_IFREG + 420, uid_of(current_user), gid_of(current_user))
      \* uint32_t file_inode = create_inode(...)
      file_inode == IF c.ret < 0 THEN UINT32_NEG1 ELSE c.ret
      a == add_directory_entry(c.d, p.parent_inode, p.child_name, file_inode)
  IN IF ~is_logged_in THEN [d |-> d, ret |-> -1]
     ELSE IF p.ret # 0 \/ p.parent_inode = 0 THEN [d |-> d, ret |-> -1]
     ELSE IF ~is_directory(d, p.parent_inode) THEN [d |-> d, ret |-> -1]
     ELSE IF ~check_permission(d, p.parent_inode, EXT2_S_IWUSR) THEN [d |-> d, ret |-> -1]
     ELSE IF file_inode = 0 THEN [d |-> c.d, ret |-> -1]
     ELSE IF a.ret # 0 THEN [d |-> delete_inode(a.d, file_inode).d, ret |-> -1]
     ELSE [d |-> a.d, ret |-> 0]

\* cmd_delete that refuses a file an open handle refers to
cmd_delete_refuses_open(d, path) ==
  LET t == path_to_inode(d, path)
      p == get_parent_inode(d, path)
      r == remove_directory_entry(d, p.parent_inode, p.child_name)
      x == delete_inode(r.d, t.inode_no)
  IN IF ~is_logged_in THEN [d |-> d, ret |-> -1]
     ELSE IF t.ret # 0 THEN [d |-> d, ret |-> -1]
     ELSE IF is_directory(d, t.inode_no) THEN [d |-> d, ret |-> -1]
     ELSE IF ~check_permission(d, t.inode_no, EXT2_S_IWUSR) THEN [d |-> d, ret |-> -1]
     ELSE IF \E i \in DOMAIN open_files :
               open_files[i].is_open /\ open_files[i].inode_no = t.inode_no
          THEN [d |-> d, ret |-> -1]
     ELSE IF p.ret # 0 THEN [d |-> d, ret |-> -1]
     ELSE IF r.ret # 0 THEN [d |-> r.d, ret |-> -1]
     ELSE IF x.ret # 0 THEN [d |-> x.d, ret |-> -1]
     ELSE [d |-> x.d, ret |-> 0]

cmd_delete(d, path) ==
  LET t == path_to_inode(d, path)
      p == get_parent_inode(d, path)
      r == remove_directory_entry(d, p.parent_inode, p.child_name)
      x == delete_inode(r.d, t.inode_no)
  IN IF ~is_logged_in THEN [d |-> d, ret |-> -1]
     ELSE IF t.ret # 0 THEN [d |-> d, ret |-> -1]
     ELSE IF is_directory(d, t.inode_no) THEN [d |-> d, ret |-> -1]
     ELSE IF ~check_permission(d, t.inode_no, EXT2_S_IWUSR) THEN [d |-> d, ret |-> -1]
     ELSE IF p.ret # 0 THEN [d |-> d, ret |-> -1]
     ELSE IF r.ret # 0 THEN [d |-> r.d, ret |-> -1]
     ELSE IF x.ret # 0 THEN [d |-> x.d, ret |-> -1]
     ELSE [d |-> x.d, ret |-> 0]

Slots == 0..(MAX_OPEN_FILES - 1)

ClosedSlot == [fd |-> 0, inode_no |-> 0, flags |-> 0, offset |-> 0, is_open |-> FALSE]

\* the access bits cmd_open asks check_permission for
open_access(flags) ==
  BitOr(BitOr(IF BitAnd(flags, O_RDONLY) # 0 THEN EXT2_S_IRUSR ELSE 0,
              IF BitAnd(flags, O_WRONLY) # 0 THEN EXT2_S_IWUSR ELSE 0),
        IF BitAnd(flags, O_RDWR) # 0 THEN BitOr(EXT2_S_IRUSR, EXT2_S_IWUSR) ELSE 0)

\* cmd_open numbering a handle after the slot it fills
open_fd_by_slot(slot) == FIRST_FD + slot

\* the handle id cmd_open gives the slot it fills, and fs.next_fd afterwards
open_fd(slot) == next_fd
open_next_fd == next_fd + 1

\* cmd_open that takes slot 0 over when no slot is free
cmd_open_evicts(d, path, flags) ==
  LET t == path_to_inode(d, path)
      free == {i \in Slots : ~open_files[i].is_open}
      fail == [ret |-> -1, of |-> open_files, nfd |-> next_fd]
      slot == IF free = {} THEN 0 ELSE Min(free)
  IN IF ~is_logged_in THEN fail
     ELSE IF t.ret # 0 THEN fail
     ELSE IF ~is_regular_file(d, t.inode_no) THEN fail
     ELSE IF ~check_permission(d, t.inode_no, open_access(flags)) THEN fail
     ELSE [ret |-> open_fd(slot),
           of |-> [open_files EXCEPT ![slot] =
                     [fd |-> open_fd(slot), inode_no |-> t.inode_no, flags |-> flags,
                      offset |-> 0, is_open |-> TRUE]],
           nfd |-> open_next_fd]

\* returns [ret, of, nfd]: the return value, fs.open_files and fs.next_fd
cmd_open(d, path, flags) ==
  LET t == path_to_inode(d, path)
      free == {i \in Slots : ~open_files[i].is_open}
      fail == [ret |-> -1, of |-> open_files, nfd |-> next_fd]
      slot == Min(free)
  IN IF ~is_logged_in THEN fail
     ELSE IF t.ret # 0 THEN fail
     ELSE IF ~is_regular_file(d, t.inode_no) THEN fail
     ELSE IF ~check_permission(d, t.inode_no, open_access(flags)) THEN fail
     ELSE IF free = {} THEN fail
     ELSE [ret |-> open_fd(slot),
           of |-> [open_files EXCEPT ![slot] =
                     [fd |-> open_fd(slot), inode_no |-> t.inode_no, flags |-> flags,
                      offset |-> 0, is_open |-> TRUE]],
           nfd |-> open_next_fd]

\* the slot the loops of cmd_close, cmd_read and cmd_write stop at, or -1
\* the loops matching on the handle id alone, without the in-use flag
find_slot_ignores_flag(fd) ==
  LET hits == {i \in Slots : open_files[i].fd = fd}
  IN IF hits = {} THEN -1 ELSE Min(hits)

find_slot(fd) ==
  LET hits == {i \in Slots : open_files[i].is_open /\ open_files[i].fd = fd}
  IN IF hits = {} THEN -1 ELSE Min(hits)

cmd_close(fd) ==
  LET i == find_slot(fd)
  IN IF ~is_logged_in \/ i = -1 THEN [ret |-> -1, of |-> open_files]
     ELSE [ret |-> 0, of |-> [open_files EXCEPT ![i].is_open = FALSE]]

read_allowed(flags) == ~(BitAnd(flags, O_RDONLY) = 0 /\ BitAnd(flags, O_RDWR) = 0)

write_allowed(flags) == ~(BitAnd(flags, O_WRONLY) = 0 /\ BitAnd(flags, O_RDWR) = 0)

\* returns [d, ret, of, buf, why]; why names the branch that returned
cmd_read(d, fd, size) ==
  LET i == find_slot(fd)
      f == open_files[i]
      r == read_inode_data(d, f.inode_no, size, f.offset)
      fail(w) == [d |-> d, ret |-> -1, of |-> open_files, buf |-> <<>>, why |-> w]
  IN IF ~is_logged_in THEN fail("login")
     ELSE IF i = -1 THEN fail("badfd")
     ELSE IF ~read_allowed(f.flags) THEN fail("flags")
     ELSE [d |-> r.d, ret |-> r.ret, buf |-> r.buf, why |-> "io",
           of |-> IF r.ret > 0 THEN [open_files EXCEPT ![i].offset = @ + r.ret]
                  ELSE open_files]

\* cmd_write without the test of is_logged_in
cmd_write_no_gate(d, fd, buf) ==
  LET i == find_slot(fd)
      f == open_files[i]
      w == write_inode_data(d, f.inode_no, buf, f.offset)
      fail(y) == [d |-> d, ret |-> -1, of |-> open_files, why |-> y]
  IN IF i = -1 THEN fail("badfd")
     ELSE IF ~write_allowed(f.flags) THEN fail("flags")
     ELSE [d |-> w.d, ret |-> w.ret, why |-> "io",
           of |-> IF w.ret > 0 THEN [open_files EXCEPT ![i].offset = @ + w.ret]
                  ELSE open_files]

cmd_write(d, fd, buf) ==
  LET i == find_slot(fd)
      f == open_files[i]
      w == write_inode_data(d, f.inode_no, buf, f.offset)
      fail(y) == [d |-> d, ret |-> -1, of |-> open_files, why |-> y]
  IN IF ~is_logged_in THEN fail("login")
     ELSE IF i = -1 THEN fail("badfd")
     ELSE IF ~write_allowed(f.flags) THEN fail("flags")
     ELSE [d |-> w.d, ret |-> w.ret, why |-> "io",
           of |-> IF w.ret > 0 THEN [open_files EXCEPT ![i].offset = @ + w.ret]
                  ELSE open_files]

cmd_chmod(d, path, mode) ==
  LET t == path_to_inode(d, path)
  IN IF ~is_logged_in \/ t.ret # 0 THEN [d |-> d, ret |-> -1]
     ELSE change_permission(d, t.inode_no, mode)

cmd_chown(d, path, uid, gid) ==
  LET t == path_to_inode(d, path)
  IN IF ~is_logged_in \/ t.ret # 0 THEN [d |-> d, ret |-> -1]
     ELSE change_owner(d, t.inode_no, uid, gid)

cmd_dir(d, path) == IF ~is_logged_in THEN -1 ELSE list_directory(d, path)

cmd_mkdir(d, path) ==
  IF ~is_logged_in THEN [d |-> d, ret |-> -1]
  ELSE create_directory(d, path, 493, uid_of(current_user), gid_of(current_user))

cmd_rmdir(d, path) ==
  IF ~is_logged_in THEN [d |-> d, ret |-> -1] ELSE delete_directory(d, path)

cmd_cd(d, path) ==
  IF ~is_logged_in THEN [ret |-> -1, cwd |-> cwd_inode] ELSE change_directory(d, path)

cmd_users == IF ~is_logged_in THEN -1 ELSE 0


\* ================================================================= images
DataBlocks == S_R_BLOCKS_COUNT..(MAX_BLOCKS - 1)
ROOT_BLOCK == S_R_BLOCKS_COUNT

\* what cmd_format leaves in the image file: zero blocks, then the superblock
FormattedImage ==
  [magic |-> EXT2_MAGIC,
   fb |-> MAX_BLOCKS - S_R_BLOCKS_COUNT,
   fi |-> MAX_INODES - 1,
   bbm |-> {},
   ibm |-> {},
   inodes |-> [n \in 1..MAX_INODES |-> ZeroInode],
   blk |-> [b \in DataBlocks |-> ZeroBlock],
   dirblk |-> [b \in DataBlocks |-> <<>>]]

\* an image that holds an empty filesystem: the reserved blocks and the
\* root's directory block marked used, inode 2 the root directory
EmptyFsImage ==
  [magic |-> EXT2_MAGIC,
   fb |-> MAX_BLOCKS - S_R_BLOCKS_COUNT - 1,
   fi |-> MAX_INODES - 1,
   bbm |-> 0..ROOT_BLOCK,
   ibm |-> {ROOT_INO},
   inodes |-> [n \in 1..MAX_INODES |->
                 IF n = ROOT_INO
                 THEN [ZeroInode EXCEPT !.i_mode = EXT2_S_IFDIR + 493, !.i_size = BLOCK_SIZE,
                                        !.i_links_count = 2, !.i_blocks = 1,
                                        !.i_block[1] = ROOT_BLOCK]
                 ELSE ZeroInode],
   blk |-> [b \in DataBlocks |-> ZeroBlock],
   dirblk |-> [b \in DataBlocks |->
                 IF b = ROOT_BLOCK
                 THEN <<[inode |-> ROOT_INO, rec_len |-> 1, name |-> "."],
                        [inode |-> ROOT_INO, rec_len |-> DIR_SLOTS - 1, name |-> ".."]>>
                 ELSE <<>>]]

\* the one image file the commands are given
IMAGE_PATH == "disk.img"

\* a file that is not a filesystem image: zero bytes where the superblock is
ForeignImage ==
  [FormattedImage EXCEPT !.magic = 0, !.fb = 0, !.fi = 0]

\* cmd_mount that leaves out the comparison of s_magic
cmd_mount_any_magic(read_ok) ==
  IF ~read_ok
  THEN [ret |-> -1, open |-> FALSE, sb |-> superblock, path |-> disk_image]
  ELSE [ret |-> 0, open |-> TRUE,
        sb |-> [magic |-> image.magic, fb |-> image.fb, fi |-> image.fi],
        path |-> IMAGE_PATH]

\* returns [ret, open, sb, path]: the return value, whether the device holds
\* the image open, fs.superblock and fs.disk_image
cmd_mount(read_ok) ==
  IF ~read_ok
  THEN [ret |-> -1, open |-> FALSE, sb |-> superblock, path |-> disk_image]
  ELSE LET sb == [magic |-> image.magic, fb |-> image.fb, fi |-> image.fi]
       IN IF sb.magic # EXT2_MAGIC
          THEN [ret |-> -1, open |-> FALSE, sb |-> sb, path |-> disk_image]
          ELSE [ret |-> 0, open |-> TRUE, sb |-> sb, path |-> IMAGE_PATH]

\* ================================================================= machine
Init ==
  /\ image \in {EmptyFsImage, ForeignImage}
  /\ mounted = FALSE
  /\ superblock = [magic |-> 0, fb |-> 0, fi |-> 0]
  /\ open_files = [i \in Slots |-> ClosedSlot]
  /\ next_fd = FIRST_FD
  /\ current_user = "none"
  /\ running = TRUE
  /\ last = ""
  /\ result = 0
  /\ issued = {}
  /\ now = 0
  /\ disk_image = ""
  /\ cwd_inode = ROOT_INO

\* the image as the session's allocators see it: the counters are fs.superblock's
Sess == [image EXCEPT !.fb = superblock.fb, !.fi = superblock.fi]

Commit(d) ==
  /\ image' = IF d = Sess THEN image ELSE d
  /\ superblock' = IF d = Sess THEN superblock
                   ELSE [superblock EXCEPT !.fb = d.fb, !.fi = d.fi]

\* parse_command returns r to command_loop, which leaves its loop on 1
Return(c, r) ==
  /\ last' = c
  /\ result' = r
  /\ running' = (r # 1)

Format ==
  /\ running /\ ~mounted /\ \A i \in Slots : ~open_files[i].is_open
  /\ image' = FormattedImage
  /\ Return("format", 0)
  /\ UNCHANGED <<cwd_inode, disk_image, mounted, superblock, open_files, next_fd, current_user, issued, now>>

\* read_block(0, &fs.superblock) fails when the file is shorter than a block
Mount ==
  /\ running
  /\ \E read_ok \in BOOLEAN :
       LET r == cmd_mount(read_ok)
       IN /\ superblock' = r.sb
          /\ mounted' = r.open
          /\ disk_image' = r.path
          /\ Return("mount", r.ret)
  /\ UNCHANGED <<cwd_inode, image, open_files, next_fd, current_user, issued, now>>

Umount ==
  /\ running
  /\ mounted' = FALSE
  /\ Return("umount", 0)
  /\ UNCHANGED <<cwd_inode, disk_image, image, superblock, open_files, next_fd, current_user, issued, now>>

Login ==
  /\ running
  /\ \E u \in Users, pw \in {"", "alice", "root"} :
       /\ current_user' = IF login(u, pw) = 0 THEN u ELSE current_user
       /\ Return("login", login(u, pw))
  /\ UNCHANGED <<cwd_inode, disk_image, image, mounted, superblock, open_files, next_fd, issued, now>>

Logout ==
  /\ running
  /\ current_user' = "none"
  /\ Return("logout", 0)
  /\ UNCHANGED <<cwd_inode, disk_image, image, mounted, superblock, open_files, next_fd, issued, now>>

Create ==
  /\ running
  /\ \E path \in Names :
       LET r == cmd_create(Sess, path)
       IN /\ Commit(r.d)
          /\ Return("create", r.ret)
  /\ UNCHANGED <<cwd_inode, disk_image, mounted, open_files, next_fd, current_user, issued, now>>

Delete ==
  /\ running
  /\ \E path \in Names :
       LET r == cmd_delete(Sess, path)
       IN /\ Commit(r.d)
          /\ Return("delete", r.ret)
  /\ UNCHANGED <<cwd_inode, disk_image, mounted, open_files, next_fd, current_user, issued, now>>

Open ==
  /\ running /\ next_fd < MaxFd
  /\ \E path \in Names, flags \in {O_RDONLY, O_WRONLY, O_RDWR} :
       LET r == cmd_open(Sess, path, flags)
       IN /\ open_files' = r.of
          /\ next_fd' = r.nfd
          /\ issued' = IF r.ret >= 0 THEN issued \cup {r.ret} ELSE issued
          /\ Return("open", r.ret)
  /\ UNCHANGED <<cwd_inode, disk_image, image, mounted, superblock, current_user, now>>

Fds == FIRST_FD..(MaxFd - 1)

Close ==
  /\ running
  /\ \E fd \in Fds :
       LET r == cmd_close(fd)
       IN /\ open_files' = r.of
          /\ Return("close", r.ret)
  /\ UNCHANGED <<cwd_inode, disk_image, image, mounted, superblock, next_fd, current_user, issued, now>>

Read ==
  /\ running
  /\ \E fd \in Fds, size \in ReadSizes :
       LET r == cmd_read(Sess, fd, size)
       IN /\ Commit(r.d)
          /\ open_files' = r.of
          /\ Return("read", r.ret)
  /\ UNCHANGED <<cwd_inode, disk_image, mounted, next_fd, current_user, issued, now>>

Write ==
  /\ running
  /\ \E fd \in Fds, buf \in WriteData :
       LET r == cmd_write(Sess, fd, buf)
       IN /\ Commit(r.d)
          /\ open_files' = r.of
          /\ Return("write", r.ret)
  /\ UNCHANGED <<cwd_inode, disk_image, mounted, next_fd, current_user, issued, now>>

Chmod ==
  /\ running
  /\ \E path \in Names, mode \in Modes :
       LET r == cmd_chmod(Sess, path, mode)
       IN /\ Commit(r.d)
          /\ Return("chmod", r.ret)
  /\ UNCHANGED <<cwd_inode, disk_image, mounted, open_files, next_fd, current_user, issued, now>>

\* status and help return 0, an empty line returns 0
NoOp ==
  /\ running
  /\ \E c \in {"status", "help", ""} : Return(c, 0)
  /\ UNCHANGED <<cwd_inode, disk_image, image, mounted, superblock, open_files, next_fd, current_user, issued, now>>

\* an unknown command, or a command that lacks an argument it needs
BadLine ==
  /\ running
  /\ Return("unknown", -1)
  /\ UNCHANGED <<cwd_inode, disk_image, image, mounted, superblock, open_files, next_fd, current_user, issued, now>>

Quit ==
  /\ running
  /\ \E c \in {"quit", "exit"} : Return(c, 1)
  /\ UNCHANGED <<cwd_inode, disk_image, image, mounted, superblock, open_files, next_fd, current_user, issued, now>>

\* fgets returns NULL
Eof ==
  /\ running
  /\ running' = FALSE
  /\ last' = "eof"
  /\ UNCHANGED <<cwd_inode, disk_image, image, mounted, superblock, open_files, next_fd, current_user, issued,
                 now, result>>

\* Session management from process start: images, users, files and handles.
\* The transfer of data through a handle is explored by SpecFs below.
Next ==
  \/ Format \/ Mount \/ Umount \/ Login \/ Logout
  \/ Create \/ Delete \/ Open \/ Close \/ Chmod
  \/ NoOp \/ BadLine \/ Quit \/ Eof

Spec == Init /\ [][Next]_vars


\* The command loop from the state that "mount" of the empty filesystem and
\* "login root root" leave, without further mounts and logins.
InitFs ==
  /\ image = EmptyFsImage
  /\ mounted = TRUE
  /\ superblock = [magic |-> EmptyFsImage.magic, fb |-> EmptyFsImage.fb,
                   fi |-> EmptyFsImage.fi]
  /\ open_files = [i \in Slots |-> ClosedSlot]
  /\ next_fd = FIRST_FD
  /\ current_user = "root"
  /\ running = TRUE
  /\ last = "login"
  /\ result = 0
  /\ issued = {}
  /\ now = 0
  /\ disk_image = IMAGE_PATH
  /\ cwd_inode = ROOT_INO

NextFs ==
  \/ Create \/ Delete \/ Open \/ Close \/ Read \/ Write \/ Chmod
  \/ NoOp \/ BadLine \/ Quit \/ Eof

SpecFs == InitFs /\ [][NextFs]_vars

\* ---------------------------------------------------- logging in and out
\* Sessions in which users come and go: the commands that are not gated, and
\* gated commands that build up files, handles, directories and a current
\* directory before a logout.
DirPaths == Names \cup {"/"}

Dir ==
  /\ running
  /\ \E path \in DirPaths : Return("dir", cmd_dir(Sess, path))
  /\ UNCHANGED <<cwd_inode, disk_image, image, mounted, superblock, open_files, next_fd,
                 current_user, issued, now>>

Mkdir ==
  /\ running
  /\ \E path \in Names :
       LET r == cmd_mkdir(Sess, path)
       IN /\ Commit(r.d)
          /\ Return("mkdir", r.ret)
  /\ UNCHANGED <<cwd_inode, disk_image, mounted, open_files, next_fd, current_user, issued, now>>

Cd ==
  /\ running
  /\ \E path \in DirPaths :
       LET r == cmd_cd(Sess, path)
       IN /\ cwd_inode' = r.cwd
          /\ Return("cd", r.ret)
  /\ UNCHANGED <<disk_image, image, mounted, superblock, open_files, next_fd, current_user,
                 issued, now>>

ListUsers ==
  /\ running
  /\ Return("users", cmd_users)
  /\ UNCHANGED <<cwd_inode, disk_image, image, mounted, superblock, open_files, next_fd,
                 current_user, issued, now>>

\* the state "mount" of the empty filesystem leaves, nobody logged in
InitGate ==
  /\ image = EmptyFsImage
  /\ mounted = TRUE
  /\ superblock = [magic |-> EmptyFsImage.magic, fb |-> EmptyFsImage.fb,
                   fi |-> EmptyFsImage.fi]
  /\ open_files = [i \in Slots |-> ClosedSlot]
  /\ next_fd = FIRST_FD
  /\ current_user = "none"
  /\ running = TRUE
  /\ last = "mount"
  /\ result = 0
  /\ issued = {}
  /\ now = 0
  /\ disk_image = IMAGE_PATH
  /\ cwd_inode = ROOT_INO

NextGate ==
  \/ Format \/ Mount \/ Umount \/ Login \/ Logout \/ NoOp
  \/ Create \/ Open \/ Close \/ Write \/ Mkdir \/ Cd \/ Dir \/ ListUsers

SpecGate == InitGate /\ [][NextGate]_vars


\* ------------------------------------------------------- inode-layer calls
\* The functions of inode.c called one after the other on a mounted image,
\* with root as the current user and a clock that advances.
MaxNow == 1

\* the bytes of a file that fills its direct blocks and one byte more
FillData == [i \in 1..(NDIRECT * BLOCK_SIZE + 1) |-> 7]

\* an image that holds the file "a" with FillData in it and its size stored,
\* as an implementation that stores sizes leaves it
PopulatedImage ==
  LET c == create_inode(EmptyFsImage, EXT2_S_IFREG + 420, 0, 0)
      a == add_directory_entry(c.d, ROOT_INO, "a", c.ret)
      w == write_inode_data(a.d, c.ret, FillData, 0)
  IN [w.d EXCEPT !.inodes[c.ret].i_size = Len(FillData),
                 !.inodes[c.ret].i_blocks = NDIRECT + 1]

FileArgs == (1..MAX_INODES) \ {ROOT_INO}
Ids == {0, 1}
LibModes == {0, 420, 56, 7}
LibOffsets == {0, BLOCK_SIZE}
LibLengths == {0, 1, BLOCK_SIZE}

InitLib ==
  /\ mounted = TRUE
  /\ now = 0
  /\ current_user = "root"
  /\ image = EmptyFsImage
  /\ superblock = [magic |-> image.magic, fb |-> image.fb, fi |-> image.fi]
  /\ open_files = [i \in Slots |-> ClosedSlot]
  /\ next_fd = FIRST_FD
  /\ running = TRUE
  /\ last = ""
  /\ result = 0
  /\ issued = {}
  /\ disk_image = IMAGE_PATH
  /\ cwd_inode = ROOT_INO

\* the call made last and what it returned
Called(c, r) ==
  /\ last' = c
  /\ result' = r

\* the session starts on the populated image instead of the empty one
StartPopulated ==
  /\ last = "" /\ image = EmptyFsImage
  /\ image' = PopulatedImage
  /\ superblock' = [magic |-> PopulatedImage.magic, fb |-> PopulatedImage.fb,
                    fi |-> PopulatedImage.fi]
  /\ Called("mount", 0)
  /\ UNCHANGED <<cwd_inode, mounted, open_files, next_fd, current_user, running, issued, now, disk_image>>

CreateInode ==
  /\ \E uid \in Ids, gid \in Ids :
       LET r == create_inode(Sess, EXT2_S_IFREG + 420, uid, gid)
       IN Commit(r.d) /\ Called("create_inode", r.ret)
  /\ UNCHANGED <<cwd_inode, mounted, open_files, next_fd, current_user, running, issued, now, disk_image>>

DeleteInode ==
  /\ \E n \in FileArgs :
       LET r == delete_inode(Sess, n)
       IN Commit(r.d) /\ Called("delete_inode", r.ret)
  /\ UNCHANGED <<cwd_inode, mounted, open_files, next_fd, current_user, running, issued, now, disk_image>>

WriteInodeData ==
  /\ \E n \in FileArgs, buf \in WriteData, offset \in LibOffsets :
       LET r == write_inode_data(Sess, n, buf, offset)
       IN Commit(r.d) /\ Called("write_inode_data", r.ret)
  /\ UNCHANGED <<cwd_inode, mounted, open_files, next_fd, current_user, running, issued, now, disk_image>>

TruncateInode ==
  /\ \E n \in FileArgs, length \in LibLengths :
       LET r == truncate_inode(Sess, n, length)
       IN Commit(r.d) /\ Called("truncate_inode", r.ret)
  /\ UNCHANGED <<cwd_inode, mounted, open_files, next_fd, current_user, running, issued, now, disk_image>>

ChangePermission ==
  /\ \E n \in 1..MAX_INODES, mode \in LibModes :
       LET r == change_permission(Sess, n, mode)
       IN Commit(r.d) /\ Called("change_permission", r.ret)
  /\ UNCHANGED <<cwd_inode, mounted, open_files, next_fd, current_user, running, issued, now, disk_image>>

ChangeOwner ==
  /\ \E n \in 1..MAX_INODES, uid \in Ids, gid \in Ids :
       LET r == change_owner(Sess, n, uid, gid)
       IN Commit(r.d) /\ Called("change_owner", r.ret)
  /\ UNCHANGED <<cwd_inode, mounted, open_files, next_fd, current_user, running, issued, now, disk_image>>

\* time(NULL) returns a later second
Tick ==
  /\ now < MaxNow
  /\ now' = now + 1
  /\ UNCHANGED <<cwd_inode, image, mounted, superblock, open_files, next_fd, current_user, running,
                 last, result, issued, disk_image>>

\* allocation and data: the clock stands still, owners and modes stay as
\* create_inode sets them
NextLib ==
  \/ StartPopulated \/ CreateInode \/ DeleteInode \/ WriteInodeData \/ TruncateInode

SpecLib == InitLib /\ [][NextLib]_vars

\* attributes: owners, modes and change times under an advancing clock
NextAttr ==
  \/ StartPopulated \/ CreateInode \/ ChangePermission \/ ChangeOwner \/ Tick

SpecAttr == InitLib /\ [][NextAttr]_vars


\* ------------------------------------------------------------ file reads
\* read_inode_data called on files whose size is stored and whose logical
\* blocks are mapped or not, block by block.

\* the logical blocks one inode can map, and the sizes tried: up to one byte
\* past what the pointers can map
FileBlocks == 0..(NDIRECT + PTRS - 1)
FileSizes == 0..((NDIRECT + PTRS) * BLOCK_SIZE + 1)

\* the bytes written to logical block i: byte p of the file holds p + 1
BlockBytes(i) == [k \in 1..BLOCK_SIZE |-> i * BLOCK_SIZE + k]

\* write_inode_data of one whole block to each logical block in mapped
RECURSIVE map_blocks(_, _, _, _)
map_blocks(d, n, mapped, i) ==
  IF i \notin FileBlocks THEN d
  ELSE map_blocks(IF i \in mapped
                  THEN write_inode_data(d, n, BlockBytes(i), i * BLOCK_SIZE).d
                  ELSE d,
                  n, mapped, i + 1)

\* an image that holds the file "a" of size s with the logical blocks in
\* mapped written, as an implementation that stores sizes leaves it
SparseImage(mapped, s) ==
  LET c == create_inode(EmptyFsImage, EXT2_S_IFREG + 420, 0, 0)
      a == add_directory_entry(c.d, ROOT_INO, "a", c.ret)
      m == map_blocks(a.d, c.ret, mapped, 0)
  IN [m EXCEPT !.inodes[c.ret].i_size = s,
               !.inodes[c.ret].i_blocks = (s + BLOCK_SIZE - 1) \div BLOCK_SIZE]

\* the session starts on one of the sparse images
StartSparse ==
  /\ last = "" /\ image = EmptyFsImage
  /\ \E mapped \in SUBSET FileBlocks, s \in FileSizes :
       LET d == SparseImage(mapped, s)
       IN /\ image' = d
          /\ superblock' = [magic |-> d.magic, fb |-> d.fb, fi |-> d.fi]
  /\ Called("mount", 0)
  /\ UNCHANGED <<cwd_inode, mounted, open_files, next_fd, current_user, running, issued, now, disk_image>>

ReadArgs == {0, 1, BLOCK_SIZE, 2 * BLOCK_SIZE + 2}

ReadInodeData ==
  /\ \E n \in FileArgs, size \in ReadArgs, offset \in FileSizes :
       LET r == read_inode_data(Sess, n, size, offset)
       IN Commit(r.d) /\ Called("read_inode_data", r.ret)
  /\ UNCHANGED <<cwd_inode, mounted, open_files, next_fd, current_user, running, issued, now, disk_image>>

NextRead ==
  \/ StartSparse \/ ReadInodeData \/ Tick

SpecRead == InitLib /\ [][NextRead]_vars


\* ================================================================== claims
Offsets == 0..(BLOCK_SIZE + 1)

RegularInodes(d) == {n \in 1..MAX_INODES : n \in d.ibm /\ is_regular_file(d, n)}

CeilDiv(a, b) == (a + b - 1) \div b

\* C1: write-then-read round trip: when write_inode_data(n, W, |W|, O) returns
\* |W|, read_inode_data(n, buf, |W|, O) on the image it leaves returns |W| and
\* the bytes W.
C1_WriteThenRead ==
  \A n \in RegularInodes(Sess), O \in Offsets, W \in WriteData :
    LET w == write_inode_data(Sess, n, W, O)
        r == read_inode_data(w.d, n, Len(W), O)
    IN w.ret = Len(W) => (r.ret = Len(W) /\ r.buf = W)

\* C2: when write_inode_data(n, buf, size, offset) returns w > 0 on an inode of
\* stored size S, the stored record has size = max(S, offset + w) and
\* blocks = ceil(size / B).
C2_WriteExtendsSize ==
  \A n \in RegularInodes(Sess), O \in Offsets, W \in WriteData :
    LET w == write_inode_data(Sess, n, W, O)
        S == Sess.inodes[n].i_size
        after == w.d.inodes[n]
    IN w.ret > 0 => (/\ after.i_size = Max2(S, O + w.ret)
                     /\ after.i_blocks = CeilDiv(after.i_size, BLOCK_SIZE))

\* the permission class of inode n for the current user: owner, else group,
\* else other
SelectedClass(d, n) ==
  IF uid_of(current_user) = d.inodes[n].i_uid THEN (d.inodes[n].i_mode \div 64) % 8
  ELSE IF gid_of(current_user) = d.inodes[n].i_gid THEN (d.inodes[n].i_mode \div 8) % 8
  ELSE d.inodes[n].i_mode % 8

LacksRead(d, n) == (SelectedClass(d, n) \div 4) % 2 = 0

\* C3: cmd_open with flags 0 on a regular file whose selected permission class
\* lacks the read bit returns -1, fills no slot and leaves next_fd alone.
C3_OpenReadDenied ==
  \A p \in Names :
    LET t == path_to_inode(Sess, p)
        o == cmd_open(Sess, p, 0)
    IN (is_logged_in /\ t.ret = 0 /\ is_regular_file(Sess, t.inode_no)
        /\ LacksRead(Sess, t.inode_no))
       => (o.ret = -1 /\ o.of = open_files /\ o.nfd = next_fd)

\* C4: for a handle opened with flags f in {0, 1, 2}, cmd_read is not rejected
\* for its flags iff f is 0 or 2, and cmd_write is not rejected for its flags
\* iff f is 1 or 2.
C4_FlagDirection ==
  \A i \in Slots :
    (is_logged_in /\ open_files[i].is_open /\ open_files[i].flags \in {0, 1, 2}
     /\ find_slot(open_files[i].fd) = i)
    => \A size \in ReadSizes, buf \in WriteData :
         /\ (cmd_read(Sess, open_files[i].fd, size).why # "flags")
              <=> (open_files[i].flags \in {0, 2})
         /\ (cmd_write(Sess, open_files[i].fd, buf).why # "flags")
              <=> (open_files[i].flags \in {1, 2})

FreeBitsOfBlocks == Cardinality({b \in FIRST_DATA_BLOCK..(MAX_BLOCKS - 1) : b \notin image.bbm})
FreeBitsOfInodes == Cardinality({n \in 1..MAX_INODES : n \notin image.ibm})

\* C5: CounterConsistency: on a mounted image, s_free_blocks_count is the
\* number of clear block-bitmap bits over blocks >= first_data_block and
\* s_free_inodes_count the number of clear inode-bitmap bits; in particular in
\* the state cmd_format followed by cmd_mount produces.
C5_CounterConsistency ==
  mounted => (superblock.fb = FreeBitsOfBlocks /\ superblock.fi = FreeBitsOfInodes)

\* C6: after cmd_format returns 0 the image holds a root directory: inode 2 is
\* used, a directory of mode 0755 owned by 0:0, the reserved blocks are marked
\* used, and the root's first block holds "." and ".." for inode 2.
C6_FormatMakesRoot ==
  (last = "format" /\ result = 0)
  => /\ ROOT_INO \in image.ibm
     /\ image.inodes[ROOT_INO].i_mode = EXT2_S_IFDIR + 493
     /\ image.inodes[ROOT_INO].i_uid = 0 /\ image.inodes[ROOT_INO].i_gid = 0
     /\ (0..(S_R_BLOCKS_COUNT - 1)) \subseteq image.bbm
     /\ image.inodes[ROOT_INO].i_block[1] \in DataBlocks
     /\ \E k1, k2 \in 1..Len(image.dirblk[image.inodes[ROOT_INO].i_block[1]]) :
          LET es == image.dirblk[image.inodes[ROOT_INO].i_block[1]]
          IN /\ es[k1].name = "." /\ es[k1].inode = ROOT_INO
             /\ es[k2].name = ".." /\ es[k2].inode = ROOT_INO

Live(n) == n \in image.ibm /\ image.inodes[n].i_links_count >= 1

IndirectEntries(n) ==
  {Le32Get(image.blk[image.inodes[n].i_block[IND]], j) : j \in 0..(PTRS - 1)}

\* C7: BitmapConsistency: for every live inode, every non-zero direct pointer,
\* the indirect pointer and every non-zero entry of the indirect block has
\* its block bitmap bit set.
C7_BitmapConsistency ==
  \A n \in 1..MAX_INODES :
    Live(n) =>
      /\ \A k \in 1..NDIRECT :
           image.inodes[n].i_block[k] # 0 => image.inodes[n].i_block[k] \in image.bbm
      /\ image.inodes[n].i_block[IND] # 0 =>
           /\ image.inodes[n].i_block[IND] \in image.bbm
           /\ \A e \in IndirectEntries(n) : e # 0 => e \in image.bbm

\* a write through a handle has just filled an entry of a live file's
\* indirect block
C7_Witness ==
  /\ last = "write" /\ result > 0
  /\ \E n \in 1..MAX_INODES :
       /\ Live(n) /\ is_regular_file(image, n)
       /\ image.inodes[n].i_block[IND] # 0
       /\ \E e \in IndirectEntries(n) : e # 0


\* the writes a handle opened on inode n makes one after the other, the first
\* at offset off
RECURSIVE write_seq(_, _, _, _)
write_seq(d, n, bufs, off) ==
  IF bufs = <<>> THEN d
  ELSE LET w == write_inode_data(d, n, Head(bufs), off)
       IN write_seq(w.d, n, Tail(bufs), IF w.ret > 0 THEN off + w.ret ELSE off)

WriteSeqs ==
  {<<>>} \cup {<<b>> : b \in WriteData} \cup {<<b1, b2>> : b1 \in WriteData, b2 \in WriteData}

SameAllocation(d1, d2) ==
  d1.bbm = d2.bbm /\ d1.ibm = d2.ibm /\ d1.fb = d2.fb /\ d1.fi = d2.fi

\* cmd_create(p), writes through a handle opened on p, cmd_delete(p): the
\* images after the create and after the delete, and the two return values
CreateWriteDelete(p, ws) ==
  LET c == cmd_create(Sess, p)
      w == write_seq(c.d, path_to_inode(c.d, p).inode_no, ws, 0)
      x == cmd_delete(w, p)
  IN [created |-> c.d, cret |-> c.ret, deleted |-> x.d, xret |-> x.ret]

\* C8 as stated: from any mounted state where cmd_create(p) succeeds,
\* cmd_create(p), optional writes to p, cmd_delete(p) return both bitmaps and
\* both free counters to their values before the create.
C8_CreateDeleteRoundTrip ==
  \A p \in Names, ws \in WriteSeqs :
    LET r == CreateWriteDelete(p, ws)
    IN (mounted /\ r.cret = 0 /\ r.xret = 0) => SameAllocation(r.deleted, Sess)

\* C8 as amended: the same, when the create did not append a block to the
\* parent directory.
C8_RoundTripWithoutDirGrowth ==
  \A p \in Names, ws \in WriteSeqs :
    LET r == CreateWriteDelete(p, ws)
    IN (mounted /\ r.cret = 0 /\ r.xret = 0
        /\ dir_nblocks(r.created, ROOT_INO) = dir_nblocks(Sess, ROOT_INO))
       => SameAllocation(r.deleted, Sess)

\* a file that was written past its direct blocks through a handle has been
\* deleted, the root directory had grown to two blocks before, and from here
\* a create, two writes and a delete fit the directory as it is and succeed
C8_Witness ==
  /\ last = "delete" /\ result = 0
  /\ \E i \in Slots : open_files[i].offset > BLOCK_SIZE
  /\ dir_nblocks(Sess, ROOT_INO) = 2
  /\ \E p \in Names, ws \in WriteSeqs :
       LET r == CreateWriteDelete(p, ws)
       IN /\ Len(ws) = 2 /\ r.cret = 0 /\ r.xret = 0
          /\ dir_nblocks(r.created, ROOT_INO) = 2
          /\ r.created.ibm # image.ibm

UniqueIds ==
  \A i, j \in Slots :
    (i # j /\ open_files[i].is_open /\ open_files[j].is_open)
    => open_files[i].fd # open_files[j].fd

C10_LoopStopsOnlyOnQuit ==
  /\ ~running => last \in {"quit", "exit", "eof"}
  /\ last \notin {"quit", "exit", "eof"} => result \in {0, -1}

\* C11: cmd_mount returns 0 only when the superblock was read and its magic
\* is 0xEF53; otherwise it returns -1, the device does not hold the image
\* open and fs.disk_image keeps its value; the image cmd_format writes mounts.
C11_MountChecksMagic ==
  /\ \A read_ok \in BOOLEAN :
       LET r == cmd_mount(read_ok)
       IN /\ r.ret = 0 => (read_ok /\ image.magic = EXT2_MAGIC /\ r.open
                           /\ r.path = IMAGE_PATH)
          /\ (~read_ok \/ image.magic # EXT2_MAGIC)
               => (r.ret = -1 /\ ~r.open /\ r.path = disk_image)
  /\ image = FormattedImage => cmd_mount(TRUE).ret = 0
  /\ last = "mount" => (result = 0 <=> mounted)

\* mount has just been refused on an image with another magic, and no path
\* was recorded
C11_Witness ==
  /\ last = "mount" /\ result = -1
  /\ image.magic # EXT2_MAGIC
  /\ ~mounted /\ disk_image = ""

\* C12: after cmd_umount returns no open-file slot is in use.
C12_UmountClosesHandles ==
  last = "umount" => \A i \in Slots : ~open_files[i].is_open

\* 16-bit mode arguments: permission bits only, and with bits above the low 12
ChmodArgs == {0, 420, 493, 4095, 4096 + 292, 65535}

TypeNibble(m) == m - (m % 4096)

\* C13: change_permission(n, mode) stores (old_mode & 0xF000) | (mode & 0x0FFF),
\* a second call with the same mode changes nothing more, and uid, gid, size,
\* links_count and the block pointers keep their values.
C13_ChmodIdempotent ==
  \A n \in 1..MAX_INODES, mode \in ChmodArgs :
    LET old == Sess.inodes[n]
        r1 == change_permission(Sess, n, mode)
        r2 == change_permission(r1.d, n, mode)
        new == r1.d.inodes[n]
    IN (inode_readable(n) /\ n \in image.ibm)
       => /\ r1.ret = 0 /\ r2.ret = 0
          /\ new.i_mode = TypeNibble(old.i_mode) + (mode % 4096)
          /\ r2.d.inodes[n].i_mode = new.i_mode
          /\ new.i_uid = old.i_uid /\ new.i_gid = old.i_gid
          /\ new.i_size = old.i_size /\ new.i_links_count = old.i_links_count
          /\ new.i_block = old.i_block

\* chmod has just cleared the permission bits of a regular file that holds
\* data, and the file is still a regular file
C13_Witness ==
  /\ last = "chmod" /\ result = 0
  /\ \E n \in 1..MAX_INODES :
       /\ n \in image.ibm /\ image.inodes[n].i_mode = EXT2_S_IFREG
       /\ image.inodes[n].i_block[1] # 0

\* C14: SizeBlocksConsistency: every regular file's stored inode has
\* i_blocks = ceil(i_size / BLOCK_SIZE).
C14_SizeBlocksConsistency ==
  \A n \in 1..MAX_INODES :
    (n \in image.ibm /\ is_regular_file(image, n))
    => image.inodes[n].i_blocks = CeilDiv(image.inodes[n].i_size, BLOCK_SIZE)

\* truncate_inode has just cut a regular file to a size that is not a
\* multiple of the block size
C14_Witness ==
  /\ last = "truncate_inode" /\ result = 0
  /\ \E n \in FileArgs :
       /\ n \in image.ibm /\ is_regular_file(image, n)
       /\ image.inodes[n].i_size = 1 /\ image.inodes[n].i_blocks = 1

\* the live entries of directory dir: name and inode of every entry that is
\* not a tombstone
LiveEntries(d, dir) ==
  UNION {{[name |-> d.dirblk[dir_block(d, dir, i)][k].name,
           inode |-> d.dirblk[dir_block(d, dir, i)][k].inode] :
            k \in {j \in 1..Len(d.dirblk[dir_block(d, dir, i)]) :
                     d.dirblk[dir_block(d, dir, i)][j].inode # 0}} :
         i \in {j \in 0..(dir_nblocks(d, dir) - 1) : dir_block(d, dir, j) # 0}}

\* cmd_create(p) gets as far as create_inode and cannot complete: there is no
\* free inode, or the entry cannot be added to the root directory
CannotComplete(p) ==
  LET c == create_inode(Sess, EXT2_S_IFREG + 420, uid_of(current_user),
                        gid_of(current_user))
  IN /\ mounted /\ is_logged_in
     /\ check_permission(Sess, ROOT_INO, EXT2_S_IWUSR)
     /\ \/ c.ret < 0
        \/ add_directory_entry(c.d, ROOT_INO, p, c.ret).ret # 0

\* C15: a cmd_create that cannot complete returns -1 and leaves the inode
\* bitmap, s_free_inodes_count and the parent's live entries as they were.
C15_CreateRollsBack ==
  \A p \in Names :
    LET r == cmd_create(Sess, p)
    IN CannotComplete(p)
       => /\ r.ret = -1
          /\ r.d.ibm = Sess.ibm /\ r.d.fi = Sess.fi
          /\ LiveEntries(r.d, ROOT_INO) = LiveEntries(Sess, ROOT_INO)

\* the blocks the stored inode n of image d names: through its direct
\* pointers, its indirect pointer and the entries of its indirect block
NamedBlocks(d, n) ==
  ({d.inodes[n].i_block[k] : k \in 1..IND}
   \cup (IF d.inodes[n].i_block[IND] \in DataBlocks
         THEN {Le32Get(d.blk[d.inodes[n].i_block[IND]], j) : j \in 0..(PTRS - 1)}
         ELSE {})) \ {0}

\* C16: truncate_inode(n, length) with length < size returns 0, the stored
\* inode has no non-zero pointer at a logical index >= ceil(length / B), the
\* blocks those pointers named are free, and the stored inode names no block
\* whose bitmap bit is clear.
C16_TruncateClearsPointers ==
  \A n \in FileArgs :
    \A length \in 0..(Sess.inodes[n].i_size - 1) :
      LET t == truncate_inode(Sess, n, length)
          keep == CeilDiv(length, BLOCK_SIZE)
          cut == {i \in keep..(NDIRECT + PTRS - 1) : get_inode_block(Sess, n, i).block_no # 0}
      IN (inode_readable(n) /\ n \in image.ibm /\ is_regular_file(Sess, n)
          /\ NamedBlocks(Sess, n) \subseteq Sess.bbm)
         => /\ t.ret = 0
            /\ \A i \in keep..(NDIRECT + PTRS - 1) : get_inode_block(t.d, n, i).block_no = 0
            /\ \A i \in cut : get_inode_block(Sess, n, i).block_no \notin t.d.bbm
            /\ NamedBlocks(t.d, n) \subseteq t.d.bbm

\* C17: when the clock has advanced past the stored ctime of inode n, the
\* record change_permission or change_owner leaves on disk has ctime = now,
\* and change_owner has replaced uid and gid.
C17_CtimeUpdated ==
  \A n \in 1..MAX_INODES :
    (inode_readable(n) /\ n \in image.ibm /\ now > Sess.inodes[n].i_ctime)
    => /\ \A mode \in LibModes :
            LET r == change_permission(Sess, n, mode)
            IN r.ret = 0 => r.d.inodes[n].i_ctime = now
       /\ \A uid \in Ids, gid \in Ids :
            LET r == change_owner(Sess, n, uid, gid)
            IN r.ret = 0 => /\ r.d.inodes[n].i_ctime = now
                            /\ r.d.inodes[n].i_uid = uid
                            /\ r.d.inodes[n].i_gid = gid

\* values of the required-access argument: every 3-bit mask and two with
\* bits outside a permission class
RequiredArgs == (0..7) \cup {128, 256}

\* C18: check_permission(n, required) is true iff inode n is readable and the
\* one class selected for the current user (owner, else group, else other)
\* has every required bit: the owner class is used even when the group or
\* other bits grant more, and uid 0 is treated like any other user.
C18_CheckPermissionClass ==
  /\ \A n \in 0..(MAX_INODES + 1), required \in RequiredArgs :
       check_permission(Sess, n, required)
         <=> (inode_readable(n)
              /\ BitAnd(SelectedClass(Sess, n), required) = required)
  /\ \A n \in 1..MAX_INODES, required \in 1..7 :
       LET ino == Sess.inodes[n]
       IN /\ (inode_readable(n) /\ uid_of(current_user) = ino.i_uid
               /\ BitAnd((ino.i_mode \div 64) % 8, required) # required)
              => ~check_permission(Sess, n, required)
          /\ (inode_readable(n) /\ uid_of(current_user) = 0 /\ ino.i_uid # 0
               /\ ino.i_gid # 0 /\ BitAnd(ino.i_mode % 8, required) # required)
              => ~check_permission(Sess, n, required)

\* an inode owned by another user in root's group, with group bits rwx and
\* no owner or other bits: root is granted through the group class; and an
\* inode root owns with only the other bits set: root is refused
C18_Witness ==
  /\ current_user = "root"
  /\ last \in {"change_owner", "change_permission"}
  /\ \E n, m \in 1..MAX_INODES :
       /\ n \in image.ibm /\ image.inodes[n].i_uid = 1 /\ image.inodes[n].i_gid = 0
       /\ image.inodes[n].i_mode % 512 = 56
       /\ check_permission(Sess, n, 7)
       /\ m \in image.ibm /\ image.inodes[m].i_uid = 0
       /\ image.inodes[m].i_mode % 512 = 7
       /\ ~check_permission(Sess, m, 4)

\* inode n is a regular file as create_inode leaves it: no size, no pointers
NewEmptyFile(d, n) ==
  /\ inode_readable(n) /\ n \in d.ibm /\ is_regular_file(d, n)
  /\ d.inodes[n].i_size = 0
  /\ \A k \in 1..IND : d.inodes[n].i_block[k] = 0

\* the pointers the stored inode n holds for the logical blocks in idx
PointersAt(d, n, idx) == {get_inode_block(d, n, i).block_no : i \in idx}

Mapped(d, n, i) ==
  LET g == get_inode_block(d, n, i) IN g.ret = 0 /\ g.block_no # 0

\* byte p (counted from 0) of the file, read through its block pointers
FileByte(d, n, p) ==
  d.blk[get_inode_block(d, n, p \div BLOCK_SIZE).block_no][(p % BLOCK_SIZE) + 1]

\* C21: read_inode_data(n, size, offset) on a readable inode returns 0 when
\* offset >= i_size; otherwise it returns at most min(size, i_size - offset)
\* bytes, exactly that many when every logical block of the range is mapped,
\* and otherwise the bytes that lie before the first unmapped block; the
\* bytes returned are the file's bytes from offset on.
C21_ReadStopsAtEof ==
  \A n \in FileArgs, size \in ReadArgs, offset \in FileSizes :
    LET isize == Sess.inodes[n].i_size
        r == read_inode_data(Sess, n, size, offset)
        want == IF size < isize - offset THEN size ELSE isize - offset
        range == (offset \div BLOCK_SIZE)..((offset + want - 1) \div BLOCK_SIZE)
        holes == {i \in range : ~Mapped(Sess, n, i)}
        before == Min(holes) * BLOCK_SIZE - offset
    IN inode_readable(n)
       => /\ offset >= isize => (r.ret = 0 /\ r.buf = <<>>)
          /\ offset < isize =>
               /\ r.ret >= 0 /\ r.ret <= want /\ offset + r.ret <= isize
               /\ (want > 0 /\ holes = {}) => r.ret = want
               /\ (want > 0 /\ holes # {}) => r.ret = Max2(before, 0)
               /\ Len(r.buf) = r.ret
               /\ \A k \in 1..r.ret : r.buf[k] = FileByte(Sess, n, offset + k - 1)

\* read_inode_data has just returned fewer bytes than a later block holds,
\* on a file that has its first block mapped, a hole after it and a size
\* that reaches past the hole; a read that ends at the size returns exactly
\* the bytes up to it
C21_Witness ==
  /\ last = "read_inode_data" /\ result > 0 /\ result < BLOCK_SIZE
  /\ \E n \in FileArgs :
       /\ n \in image.ibm /\ image.inodes[n].i_size > BLOCK_SIZE
       /\ Mapped(Sess, n, 0) /\ ~Mapped(Sess, n, NDIRECT)
       /\ read_inode_data(Sess, n, 2 * BLOCK_SIZE + 2, 1).ret = NDIRECT * BLOCK_SIZE - 1
       /\ read_inode_data(Sess, n, 2 * BLOCK_SIZE + 2, image.inodes[n].i_size).ret = 0

\* path names a regular file the current user may delete, and an in-use
\* slot of the open-file table holds its inode number
OpenAndDeletable(path) ==
  LET t == path_to_inode(Sess, path)
  IN /\ is_logged_in /\ t.ret = 0
     /\ is_regular_file(Sess, t.inode_no)
     /\ check_permission(Sess, t.inode_no, EXT2_S_IWUSR)
     /\ \E i \in Slots : open_files[i].is_open /\ open_files[i].inode_no = t.inode_no

\* C22: cmd_delete of a regular file that an in-use slot refers to (and that
\* passes the path, type and permission checks) returns 0, clears the
\* inode's bitmap bit and record and frees every block it named at once;
\* and a delete command never changes the open-file table, so the slot
\* stays in use with the freed inode number in it.
C22_DeleteIgnoresOpenHandles ==
  /\ [](\A path \in Names :
          LET t == path_to_inode(Sess, path)
              owned == NamedBlocks(Sess, t.inode_no)
              r == cmd_delete(Sess, path)
          IN OpenAndDeletable(path)
             => /\ r.ret = 0
                /\ t.inode_no \notin r.d.ibm
                /\ r.d.inodes[t.inode_no] = ZeroInode
                /\ owned \cap r.d.bbm = {}
                /\ path_to_inode(r.d, path).ret # 0)
  /\ [][last' = "delete" => (open_files' = open_files /\ next_fd' = next_fd)]_vars

\* a delete has just succeeded on a written file and a slot in use still
\* holds the number of the inode it freed
C22_Witness ==
  /\ last = "delete" /\ result = 0
  /\ superblock.fb >= NDIRECT + 2
  /\ \E i \in Slots :
       /\ open_files[i].is_open /\ open_files[i].offset > NDIRECT * BLOCK_SIZE
       /\ open_files[i].inode_no \notin image.ibm
       /\ image.inodes[open_files[i].inode_no] = ZeroInode

\* the sequence delete(p), create(q), write(fd, buf) run from the current
\* state, where fd is the handle the open that has just returned gave out and
\* p is the path it was opened on; delete and create leave fs.open_files
\* alone, so cmd_write finds the handle as it is now
DeleteCreateWrite(p, q, buf) ==
  LET del == cmd_delete(Sess, p)
      cr == cmd_create(del.d, q)
      w == cmd_write(cr.d, result, buf)
  IN [del |-> del, cr |-> cr, w |-> w, m |-> path_to_inode(cr.d, q).inode_no]

\* C23: when open(p) has just returned a handle, then after delete(p) and
\* create(q) have both returned 0, a write through that handle changes
\* neither the block pointers of q's inode nor any block q names.
C23_HandleIsolation ==
  \A p \in Names, q \in Names, buf \in WriteData :
    LET i == find_slot(result)
        x == DeleteCreateWrite(p, q, buf)
    IN (/\ last = "open" /\ result >= FIRST_FD /\ i # -1
        /\ path_to_inode(Sess, p).ret = 0
        /\ path_to_inode(Sess, p).inode_no = open_files[i].inode_no
        /\ x.del.ret = 0 /\ x.cr.ret = 0 /\ inode_readable(x.m))
       => /\ x.w.d.inodes[x.m].i_block = x.cr.d.inodes[x.m].i_block
          /\ \A b \in NamedBlocks(x.cr.d, x.m) : x.w.d.blk[b] = x.cr.d.blk[b]

\* the handle ids cmd_open has given out that no in-use slot holds: only
\* cmd_close clears an in-use flag, so these are the ids that were closed
Closed ==
  {fd \in issued : \A i \in Slots : ~(open_files[i].is_open /\ open_files[i].fd = fd)}

\* C24: once closed, a handle id stays closed whatever opens follow; read,
\* write and close on a closed id return -1 and change neither the image nor
\* the open-file table; and a close that returns 0 clears the in-use flag of
\* one slot and changes nothing else (other fields, other slots, next_fd,
\* image, superblock).
C24_ClosedStaysInvalid ==
  /\ [](\A fd \in Closed :
          /\ cmd_close(fd) = [ret |-> -1, of |-> open_files]
          /\ \A size \in ReadSizes :
               LET r == cmd_read(Sess, fd, size)
               IN r.ret = -1 /\ r.d = Sess /\ r.of = open_files
          /\ \A buf \in WriteData :
               LET w == cmd_write(Sess, fd, buf)
               IN w.ret = -1 /\ w.d = Sess /\ w.of = open_files)
  /\ [][Closed \subseteq Closed']_vars
  /\ [][(last' = "close" /\ result' = 0)
          => /\ \E i \in Slots :
                  /\ open_files[i].is_open
                  /\ open_files' = [open_files EXCEPT ![i].is_open = FALSE]
             /\ next_fd' = next_fd /\ image' = image /\ superblock' = superblock]_vars

\* a close has just been refused while the only handle that was closed
\* before shares its slot with a later handle that is open
C24_Witness ==
  /\ last = "close" /\ result = -1 /\ is_logged_in
  /\ \E fd \in Closed : \E i \in Slots :
       /\ open_files[i].is_open /\ open_files[i].fd > fd
       /\ \A g \in Fds : g \in Closed \/ g = open_files[i].fd

InUse == {i \in Slots : open_files[i].is_open}

OpenFlags == {O_RDONLY, O_WRONLY, O_RDWR}

\* cmd_open(path, flags) passes every check that comes before the search
\* for a free slot
Openable(path, flags) ==
  LET t == path_to_inode(Sess, path)
  IN /\ is_logged_in /\ t.ret = 0 /\ is_regular_file(Sess, t.inode_no)
     /\ check_permission(Sess, t.inode_no, open_access(flags))

\* C25: at most MAX_OPEN_FILES slots are in use; with all of them in use
\* cmd_open returns -1 and leaves the table and next_fd as they are; with a
\* slot free, as right after a close that returned 0, an open that passes
\* the path, type and permission checks returns the id next_fd and fills
\* one more slot.
C25_OpenTableBounded ==
  /\ Cardinality(InUse) <= MAX_OPEN_FILES
  /\ \A path \in Names, flags \in OpenFlags :
       LET r == cmd_open(Sess, path, flags)
           used == {i \in Slots : r.of[i].is_open}
       IN /\ InUse = Slots => r = [ret |-> -1, of |-> open_files, nfd |-> next_fd]
          /\ (last = "close" /\ result = 0) => InUse # Slots
          /\ (InUse # Slots /\ Openable(path, flags))
              => /\ r.ret = next_fd /\ r.nfd = next_fd + 1
                 /\ InUse \subseteq used /\ Cardinality(used) = Cardinality(InUse) + 1

\* an open has just been refused with every slot in use, while a file that
\* the user may open for reading and writing exists
C25_Witness ==
  /\ last = "open" /\ result = -1 /\ InUse = Slots
  /\ next_fd = FIRST_FD + MAX_OPEN_FILES
  /\ \E path \in Names : Openable(path, O_RDWR)

\* the commands of NextGate that test is_logged_in first
GatedRun == {"create", "open", "close", "write", "mkdir", "cd", "dir", "users"}

\* C26: while nobody is logged in, each of create, delete, open, close,
\* read, write, dir, mkdir, rmdir, cd, users, chmod and chown returns -1 and
\* leaves the image, the open-file table, next_fd and the current directory
\* as they are, for every argument; umount, status, help, logout and format
\* return 0, mount returns 0 on an image with the right magic number and
\* login returns 0 for a right password.
C26_LoginGate ==
  /\ [](current_user = "none" =>
          /\ \A path \in DirPaths :
               /\ cmd_create(Sess, path) = [d |-> Sess, ret |-> -1]
               /\ cmd_delete(Sess, path) = [d |-> Sess, ret |-> -1]
               /\ cmd_mkdir(Sess, path) = [d |-> Sess, ret |-> -1]
               /\ cmd_rmdir(Sess, path) = [d |-> Sess, ret |-> -1]
               /\ cmd_dir(Sess, path) = -1
               /\ cmd_cd(Sess, path) = [ret |-> -1, cwd |-> cwd_inode]
               /\ \A flags \in OpenFlags :
                    cmd_open(Sess, path, flags)
                      = [ret |-> -1, of |-> open_files, nfd |-> next_fd]
               /\ \A mode \in LibModes : cmd_chmod(Sess, path, mode) = [d |-> Sess, ret |-> -1]
               /\ \A uid \in Ids, gid \in Ids :
                    cmd_chown(Sess, path, uid, gid) = [d |-> Sess, ret |-> -1]
          /\ cmd_users = -1
          /\ \A fd \in Fds :
               /\ cmd_close(fd) = [ret |-> -1, of |-> open_files]
               /\ \A size \in ReadSizes :
                    LET r == cmd_read(Sess, fd, size)
                    IN r.ret = -1 /\ r.d = Sess /\ r.of = open_files
               /\ \A buf \in WriteData :
                    LET w == cmd_write(Sess, fd, buf)
                    IN w.ret = -1 /\ w.d = Sess /\ w.of = open_files
          /\ cmd_mount(TRUE).ret = (IF image.magic = EXT2_MAGIC THEN 0 ELSE -1)
          /\ \A u \in Users : login(u, u) = 0)
  /\ [][(current_user = "none" /\ last' \in GatedRun)
          => /\ result' = -1
             /\ image' = image /\ superblock' = superblock
             /\ open_files' = open_files /\ next_fd' = next_fd
             /\ cwd_inode' = cwd_inode]_vars
  /\ [][(current_user = "none" /\ last' \in {"umount", "status", "help", "logout", "format"})
          => result' = 0]_vars

\* a write has just been refused with nobody logged in, while a handle open
\* for writing is in the table and has data written through it
C26_Witness ==
  /\ current_user = "none" /\ last = "write" /\ result = -1
  /\ \E i \in Slots :
       /\ open_files[i].is_open /\ write_allowed(open_files[i].flags)
       /\ open_files[i].offset > 0
       /\ cmd_write_no_gate(Sess, open_files[i].fd, <<7>>).ret = 1

====
